---- MODULE Spec2Model ----
(***************************************************************************)
(* State-machine model of the fox32 host driver (src/main.c): startup,    *)
(* the pull loop of main, main_loop (timing scheduler, per-millisecond    *)
(* slices driving the engine, interrupt dispatch, event poll) and the     *)
(* push loop of the __EMSCRIPTEN__ build.                                  *)
(*                                                                         *)
(* Both builds are modelled: emscripten = FALSE is the native build       *)
(* (fixed budget, pull loop, command line), emscripten = TRUE is the      *)
(* __EMSCRIPTEN__ build (CYCLE_AUTOADJUST, push loop).                     *)
(*                                                                         *)
(* A uint32_t value v is the pair <<v \div 2^31, v % 2^31>>, so that the   *)
(* conversion to int (two's complement) is computed, not assumed.         *)
(* The float expressions of the adaptive branch are taken as exact        *)
(* rational arithmetic truncated toward zero by the conversion to int.    *)
(***************************************************************************)
EXTENDS Integers, Naturals, Sequences, FiniteSets, TLC

\* ------------------------------------------------------------- bounds
\* Iterations of the event loop explored by Spec.
MaxTicks == 3
\* Largest elapsed time (ms) between two iterations explored by Spec.
MaxElapsed == 2
\* Calls of the timing scheduler explored by SpecBudget.
MaxBudgetTicks == 3
\* Ticks of the oscillating host explored by SpecOsc.
MaxOscTicks == 110
\* Iterations of the event loop explored by SpecTick.
MaxSliceTicks == 1
\* Longest command line (arguments after argv[0]) explored by SpecArgs.
MaxArgs == 5

\* ---------------------------------------------------- program constants
FPS == 60
TPF == 1
TPS == FPS * TPF
CYCLE_AUTOADJUST_TOLERANCE == 10
CYCLE_AUTOADJUST_ADD == 1000
\* cpu.h is not part of the sources at hand; the value is the specification's
\* target_cpu_hz.
FOX32_CPU_HZ == 64000000
\* Width of int: the largest and the smallest value.
IntMax == 2147483647
IntMin == (-IntMax) - 1

\* ------------------------------------------------------ C arithmetic
Mag(x) == IF x < 0 THEN (IF x = IntMin THEN IntMax ELSE -x) ELSE x

Sign(x) == IF x < 0 THEN -1 ELSE 1

\* C integer division: truncation toward zero.  A zero divisor traps in the
\* program; the callers record the trap (DivTraps) and never use the value.
CDiv(a, b) == IF b = 0 THEN 0 ELSE Sign(a) * Sign(b) * (Mag(a) \div Mag(b))

\* C remainder (sign of the dividend).
CMod(a, b) == IF b = 0 THEN 0 ELSE a - CDiv(a, b) * b

\* int addition, wrapping at the width of int.
WrapAdd(a, b) ==
    IF a >= 0 /\ b >= 0
    THEN (IF a > IntMax - b THEN (a - IntMax) + (b - IntMax) - 2 ELSE a + b)
    ELSE IF a < 0 /\ b < 0
    THEN (IF a < IntMin - b THEN (a + IntMax) + (b + IntMax) + 2 ELSE a + b)
    ELSE a + b

\* A uint32_t value: <<top bit, low 31 bits>>.
U32(n) == <<0, n>>

\* 2^32 - n for 1 <= n <= 2^31, as a uint32_t.
U32Neg(n) == <<1, (IntMax - n) + 1>>

\* Conversion uint32_t -> int (the value modulo 2^32 in [-2^31, 2^31)).
U32ToInt(u) == IF u[1] = 0 THEN u[2] ELSE (u[2] - IntMax) - 1

\* --------------------------------------------------------------- state
VARIABLES
    emscripten,         \* the build: TRUE = __EMSCRIPTEN__ (push loop, CYCLE_AUTOADJUST)
    pc,                 \* position of the single thread of control
    exit_code,          \* return value of main, -1 while it has not returned
    scheduled,          \* main_loop is registered with the host scheduler (push loop)
    headless,           \* vm.headless
    halted,             \* vm.halted
    done,               \* done (host-UI quit)
    bus_requests_exit,  \* bus_requests_exit (guest shutdown request)
    ticks,              \* ticks
    elapsed,            \* SDL_GetTicks() - tick_start as measured by main_loop (uint32_t)
    dt,                 \* dt of main_loop
    cycles_per_tick,    \* cycles_per_tick of main_loop
    extra_cycles,       \* extra_cycles of main_loop
    last_cycle_count,   \* last_cycle_count (CYCLE_AUTOADJUST)
    i,                  \* the slice index i of main_loop
    cycles_left,        \* cycles_left of the current slice
    rtc_uptime,         \* rtc_uptime
    sleep,              \* the delay of the last SDL_Delay call of main (0: none)
    \* observations of the calls made (history, never read by the program)
    draws,              \* ScreenDraw calls so far
    calls,              \* invocations of main_loop so far
    raised,             \* fox32_raise(VSYNC_INTERRUPT_VECTOR) calls in this iteration
    polled,             \* ScreenProcessEvents was called in this iteration
    rtc_updates,        \* updates of rtc_uptime / rtc_time in this iteration
    argv,               \* the command line after argv[0]
    argi,               \* i of the option loop: the argument it is at
    disk_id,            \* main's disk_id
    disks,              \* the new_disk calls made, in order
    debug,              \* vm.debug
    rom,                \* the boot ROM: "fox32rom" (built in) or a file loaded over it
    reported,           \* the messages written to stderr
    prev_faulted,       \* the iteration before this one abandoned a slice
    uptime_at_entry,    \* rtc_uptime when this iteration was entered
    last_took,          \* tick_end - tick_start of the last pass of the pull loop
    slice_budget,       \* the budget the current slice started with
    budget_sum,         \* sum of the budgets the slices of this iteration started with
    ran,                \* fox32_resume was called in this iteration
    faulted,            \* fox32_recover returned a fault in this iteration
    ran_after_fault,    \* fox32_resume was called after that, in this iteration
    started_after_exit  \* this iteration began with an exit flag already true

vars == <<emscripten, pc, exit_code, scheduled, headless, halted, done,
          bus_requests_exit, ticks, elapsed, dt, cycles_per_tick, extra_cycles,
          last_cycle_count, i, cycles_left, rtc_uptime, sleep, draws, calls,
          argv, argi, disk_id, disks, debug, rom, reported,
          raised, polled, rtc_updates, prev_faulted, uptime_at_entry,
          last_took, slice_budget, budget_sum, ran, faulted,
          ran_after_fault, started_after_exit>>

\* The variables main_loop's timing scheduler writes.
timing_vars == <<elapsed, dt, cycles_per_tick, extra_cycles, last_cycle_count>>

\* The observations of one iteration.
arg_vars == <<argv, argi, disk_id, disks, debug, rom>>

entry_obs == <<prev_faulted, uptime_at_entry>>

iter_obs == <<raised, polled, rtc_updates, slice_budget, budget_sum, ran,
              faulted, ran_after_fault, started_after_exit>>

\* ---------------------------------------------------- timing scheduler
\* The clamp left out.
ClampDt_noclamp(d) == d

\* if (!dt) dt = 1;
ClampDt(d) == IF d = 0 THEN 1 ELSE d

\* int dt = SDL_GetTicks() - tick_start;  (uint32_t difference converted to int)
MeasuredDt(e) == ClampDt(U32ToInt(e))

\* FOX32_CPU_HZ / TPS
CyclesPerTickTotal == CDiv(FOX32_CPU_HZ, TPS)

\* The tick rate left out of the division.
BaseCycles_perSecond(d) == CDiv(FOX32_CPU_HZ, d)

\* int cycles_per_tick = FOX32_CPU_HZ / TPS / dt;
BaseCycles(d) == CDiv(CyclesPerTickTotal, d)

\* int extra_cycles = FOX32_CPU_HZ / TPS - (cycles_per_tick * dt);
LeftoverCycles(d) == CyclesPerTickTotal - BaseCycles(d) * d

\* int last_tps = 1000 / (dt / TPF);
LastTps(d) == CDiv(1000, CDiv(d, TPF))

\* A divisor of the budget computation is zero (the program traps).
DivTraps(d, adaptive) == d = 0 \/ (adaptive /\ CDiv(d, TPF) = 0)

\* last_tps > (TPS - TOLERANCE) && last_tps < (TPS + TOLERANCE)
InBand(tps) ==
    /\ tps > TPS - CYCLE_AUTOADJUST_TOLERANCE
    /\ tps < TPS + CYCLE_AUTOADJUST_TOLERANCE

\* isnormal(mspc) for mspc = (float)dt / last_cycle_count: the quotient is
\* zero only for dt = 0 and infinite or NaN only for last_cycle_count = 0.
MspcNormal(d, lcc) == d # 0 /\ lcc # 0

\* The tick duration added to the estimate instead of scaling it.
ScaledCycles_added(d, lcc) == {WrapAdd(lcc, CDiv(1000, TPS))}

\* The values (int)((1000.0f / TPS) / mspc) can take, mspc = d / lcc:
\* 1000 * lcc / (TPS * d) truncated toward zero; a quotient outside the range
\* of int is undefined in C and yields INT_MIN or, saturating, INT_MAX.
\* Computed without leaving the range of int: with L = q*D + r, s = 1000r \div D,
\* q = TPS*a + b and 1000 = TPS*K + R the magnitude is K*q + R*a + (R*b + s) \div TPS.
ScaledCycles(d, lcc) ==
    LET L == Mag(lcc)
        D == Mag(d)
        q == L \div D
        r == L % D
        s == (1000 * r) \div D
        K == 1000 \div TPS
        R == 1000 % TPS
        a == q \div TPS
        b == q % TPS
        rest == R * a + ((R * b + s) \div TPS)
        inRange == q <= IntMax \div K /\ K * q <= IntMax - rest
    IN  IF inRange
        THEN {Sign(lcc) * Sign(d) * (K * q + rest)}
        ELSE {IntMin, IntMax}

\* Lines 172-187: the budgets main_loop can compute for the measured dt and
\* the persisted estimate, as records of the values it leaves in
\* cycles_per_tick, extra_cycles and last_cycle_count.
Budgets(d, lcc, adaptive) ==
    LET base  == BaseCycles(d)
        extra == LeftoverCycles(d)
        tps   == LastTps(d)
    IN  IF ~adaptive
        THEN {[cpt |-> base, extra |-> extra, lcc |-> lcc]}
        ELSE IF InBand(tps)
        THEN {[cpt |-> lcc, extra |-> CYCLE_AUTOADJUST_ADD,
               lcc |-> WrapAdd(lcc, CYCLE_AUTOADJUST_ADD)]}
        ELSE IF tps < TPS
        THEN {[cpt |-> c, extra |-> CYCLE_AUTOADJUST_ADD,
               lcc |-> WrapAdd(c, CYCLE_AUTOADJUST_ADD)] :
                 c \in (IF MspcNormal(d, lcc) THEN ScaledCycles(d, lcc) ELSE {base})}
        ELSE {[cpt |-> base, extra |-> WrapAdd(extra, CYCLE_AUTOADJUST_ADD),
               lcc |-> WrapAdd(base, WrapAdd(extra, CYCLE_AUTOADJUST_ADD))]}

\* Lines 167-187 as a step: measure dt, compute the budget, persist the
\* estimate.  A zero divisor ends the process.
TimingScheduler(e) ==
    LET d == MeasuredDt(e)
    IN  /\ elapsed' = e
        /\ dt' = d
        /\ IF DivTraps(d, emscripten)
           THEN /\ pc' = "trapped"
                /\ UNCHANGED <<cycles_per_tick, extra_cycles, last_cycle_count>>
           ELSE /\ pc' = "slice"
                /\ \E bud \in Budgets(d, last_cycle_count, emscripten) :
                      /\ cycles_per_tick' = bud.cpt
                      /\ extra_cycles' = bud.extra
                      /\ last_cycle_count' = bud.lcc

\* --------------------------------------------------------------- inputs
\* Elapsed times SDL_GetTicks() - tick_start measured by an iteration.
ElapsedSet == {U32(n) : n \in 0..MaxElapsed}

\* Durations tick_end - tick_start of an iteration, measured by the pull
\* loop, up to the largest uint32_t, 2^32 - 1 ms.
TookSet == {U32(0), U32(5), U32(CDiv(1000, TPS)), U32(40), U32Neg(1)}

\* What one call of fox32_resume followed, on a fault, by fox32_recover can
\* do (cpu.c is not part of the sources at hand; the contract is the
\* specification's: run never executes more than the budget, a fault is
\* resolved by recover or not, the guest may halt and may request shutdown).
ResumeOutcomes(budget) ==
    [executed : {0, budget \div 2, budget},
     fault    : {"none", "recovered", "unrecoverable"},
     halts    : BOOLEAN,
     shutdown : BOOLEAN]

\* -------------------------------------------------------------- startup
InitWith(avs) ==
    /\ emscripten \in BOOLEAN
    /\ argv \in (IF emscripten THEN {<<>>} ELSE avs)
    /\ argi = 1
    /\ disk_id = 0
    /\ disks = <<>>
    /\ debug = FALSE
    /\ rom = "fox32rom"
    /\ reported = {}
    /\ pc = "args"
    /\ exit_code = -1
    /\ scheduled = FALSE
    /\ headless = FALSE
    /\ halted = FALSE
    /\ done = FALSE
    /\ bus_requests_exit = FALSE
    /\ ticks = 0
    /\ elapsed = U32(0)
    /\ dt = 0
    /\ cycles_per_tick = 0
    /\ extra_cycles = 0
    /\ last_cycle_count = 1
    /\ i = 0
    /\ cycles_left = 0
    /\ rtc_uptime = 0
    /\ sleep = 0
    /\ last_took = U32(0)
    /\ prev_faulted = FALSE
    /\ uptime_at_entry = 0
    /\ draws = 0
    /\ calls = 0
    /\ raised = 0
    /\ polled = FALSE
    /\ rtc_updates = 0
    /\ slice_budget = 0
    /\ budget_sum = 0
    /\ ran = FALSE
    /\ faulted = FALSE
    /\ ran_after_fault = FALSE
    /\ started_after_exit = FALSE

\* Command lines of the runs of the event loop: no option, or --headless.
LoopArgvSet == {<<>>, <<"--headless">>}

Init == InitWith(LoopArgvSet)

\* The draw request goes out unconditionally.
DrawRequested_always(h) == TRUE

\* if (!vm.headless) ... ScreenDraw();
DrawRequested(h) == ~h

\* The index new_disk is called with, taken after the increment.
RegisteredId_pre(id) == id + 1

\* The index new_disk is called with: the value of disk_id++.
RegisteredId(id) == id

\* load_rom: the ROM in memory after the call and what it wrote to stderr.
\* A file that cannot be opened is reported and load_rom returns.
LoadRom(file, opens) ==
    IF opens
    THEN [rom |-> file, msg |-> {}]
    ELSE [rom |-> rom, msg |-> {"couldn't open ROM file"}]

\* The option loop writes msg to stderr and goes on with the next argument.
OptionReturn_goesOn(msg, ret) ==
    /\ reported' = reported \cup {msg}
    /\ argi' = argi + 1
    /\ UNCHANGED <<argv, disk_id, disks, debug, rom, headless, pc, exit_code>>

\* main returns ret from the option loop after writing msg to stderr.
OptionReturn(msg, ret) ==
    /\ reported' = reported \cup {msg}
    /\ pc' = "returned"
    /\ exit_code' = ret
    /\ UNCHANGED <<arg_vars, headless>>

\* One pass of the option loop of main (native build), at argv[i]; opens
\* is whether fopen opens the file of a --rom option.
ArgStep(opens) ==
    /\ pc = "args"
    /\ ~emscripten
    /\ argi <= Len(argv)
    /\ LET a   == argv[argi]
           has == argi + 1 <= Len(argv)
       IN  CASE a = "--help" -> OptionReturn("Usage", 0)
             [] a = "--disk" /\ has ->
                    /\ disks' = Append(disks, [file |-> argv[argi + 1],
                                               id |-> RegisteredId(disk_id),
                                               at |-> argi])
                    /\ disk_id' = disk_id + 1
                    /\ argi' = argi + 2
                    /\ UNCHANGED <<argv, debug, rom, reported, headless, pc, exit_code>>
             [] a = "--disk" /\ ~has -> OptionReturn("no disk image specified", 1)
             [] a = "--rom" /\ has ->
                    /\ rom' = LoadRom(argv[argi + 1], opens).rom
                    /\ reported' = reported \cup LoadRom(argv[argi + 1], opens).msg
                    /\ argi' = argi + 2
                    /\ UNCHANGED <<argv, disk_id, disks, debug, headless, pc, exit_code>>
             [] a = "--rom" /\ ~has -> OptionReturn("no rom image specified", 1)
             [] a = "--debug" ->
                    /\ debug' = TRUE
                    /\ argi' = argi + 1
                    /\ UNCHANGED <<argv, disk_id, disks, rom, reported, headless, pc,
                                   exit_code>>
             [] a = "--headless" ->
                    /\ headless' = TRUE
                    /\ argi' = argi + 1
                    /\ UNCHANGED <<argv, disk_id, disks, debug, rom, reported, pc,
                                   exit_code>>
             [] OTHER -> OptionReturn("unrecognized option", 1)
    /\ UNCHANGED <<emscripten, entry_obs, scheduled, halted, done, bus_requests_exit,
                   ticks, timing_vars, i, cycles_left, rtc_uptime, sleep, last_took,
                   draws, calls, iter_obs>>

\* The option loop is over (i = argc): main goes on to the window setup.
ArgsDone ==
    /\ pc = "args"
    /\ ~emscripten
    /\ argi > Len(argv)
    /\ pc' = "setup"
    /\ UNCHANGED <<emscripten, arg_vars, reported, entry_obs, exit_code, scheduled,
                   headless, halted, done, bus_requests_exit, ticks, timing_vars, i,
                   cycles_left, rtc_uptime, sleep, last_took, draws, calls, iter_obs>>

\* The __EMSCRIPTEN__ build parses no options (vm.headless stays false) and
\* registers its one disk: new_disk("fox32os.img", disk_id++).
DefaultDisk ==
    /\ pc = "args"
    /\ emscripten
    /\ disks' = Append(disks, [file |-> "fox32os.img", id |-> RegisteredId(disk_id),
                               at |-> 0])
    /\ disk_id' = disk_id + 1
    /\ pc' = "setup"
    /\ UNCHANGED <<emscripten, argv, argi, debug, rom, reported, entry_obs, exit_code,
                   scheduled, headless, halted, done, bus_requests_exit, ticks,
                   timing_vars, i, cycles_left, rtc_uptime, sleep, last_took, draws,
                   calls, iter_obs>>

\* Window setup, the first ScreenDraw and the registration of main_loop.
\* sdl_ok is the result of SDL_Init, called only when not headless.
ScreenSetup(sdl_ok) ==
    /\ pc = "setup"
    /\ DrawRequested(headless) \/ sdl_ok
    /\ IF DrawRequested(headless) /\ ~sdl_ok
       THEN /\ pc' = "returned"
            /\ exit_code' = 1
            /\ reported' = reported \cup {"unable to initialize SDL"}
            /\ UNCHANGED <<draws, scheduled>>
       ELSE /\ pc' = "loop"
            /\ draws' = IF DrawRequested(headless) THEN draws + 1 ELSE draws
            /\ scheduled' = emscripten
            /\ UNCHANGED <<exit_code, reported>>
    /\ UNCHANGED <<emscripten, arg_vars, entry_obs, headless, halted, done, bus_requests_exit, ticks,
                   timing_vars, i, cycles_left, rtc_uptime, sleep, last_took, calls, iter_obs>>

\* ------------------------------------------------------------ main_loop
\* Entry of main_loop: the slice loop starts at i = 0.
EnterMainLoop ==
    /\ i' = 0
    /\ calls' = calls + 1
    /\ raised' = 0
    /\ polled' = FALSE
    /\ rtc_updates' = 0
    /\ slice_budget' = 0
    /\ budget_sum' = 0
    /\ ran' = FALSE
    /\ faulted' = FALSE
    /\ ran_after_fault' = FALSE
    /\ started_after_exit' = (done \/ bus_requests_exit)
    /\ sleep' = 0
    /\ last_took' = U32(0)
    /\ prev_faulted' = faulted
    /\ uptime_at_entry' = rtc_uptime

\* Pull loop: while (!done && !bus_requests_exit) main_loop();
PullIterate(e) ==
    /\ pc = "loop"
    /\ ~emscripten
    /\ ~done /\ ~bus_requests_exit
    /\ calls < MaxTicks
    /\ EnterMainLoop
    /\ TimingScheduler(e)
    /\ UNCHANGED <<emscripten, arg_vars, reported, exit_code, scheduled, headless, halted, done,
                   bus_requests_exit, ticks, cycles_left, rtc_uptime, draws>>

\* Pull loop: the condition fails and main returns 0.
PullReturn ==
    /\ pc = "loop"
    /\ ~emscripten
    /\ done \/ bus_requests_exit
    /\ pc' = "returned"
    /\ exit_code' = 0
    /\ UNCHANGED <<emscripten, arg_vars, reported, entry_obs, scheduled, headless, halted, done, bus_requests_exit,
                   ticks, timing_vars, i, cycles_left, rtc_uptime, sleep, last_took, draws,
                   calls, iter_obs>>

\* Push loop: the host scheduler invokes main_loop while it is registered;
\* main_loop cancels the registration when an exit flag is set and goes on.
PushIterate(e) ==
    /\ pc = "loop"
    /\ emscripten
    /\ scheduled
    /\ calls < MaxTicks
    /\ scheduled' = ~(done \/ bus_requests_exit)
    /\ EnterMainLoop
    /\ TimingScheduler(e)
    /\ UNCHANGED <<emscripten, arg_vars, reported, exit_code, headless, halted, done, bus_requests_exit,
                   ticks, cycles_left, rtc_uptime, draws>>

\* Where control is when main_loop returns: the pull loop paces the
\* iteration, the push loop is back with the host scheduler.
AfterMainLoop == IF emscripten THEN "loop" ELSE "pace"

\* What SDL_GetTicks() can return at the start of a slice in the
\* __EMSCRIPTEN__ build: a reading not before the last one.  The native build
\* does not read the clock there.
SliceClock == IF emscripten THEN {rtc_uptime, rtc_uptime + 1} ELSE {0}

\* The uptime advanced in the first slice of an iteration only.
ClockAtSliceStart_perTick(up, n, now) ==
    <<IF emscripten THEN now ELSE (IF n = 0 THEN up + 1 ELSE up), n + 1>>

\* The clock shadow left as it is at the start of a slice.
ClockAtSliceStart_skipped(up, n, now) == <<up, n>>

\* rtc_uptime += 1 (native) or rtc_uptime = SDL_GetTicks() (__EMSCRIPTEN__),
\* rtc_time = time(NULL): the new rtc_uptime and the number of updates of the
\* clock shadow in this iteration.
ClockAtSliceStart(up, n, now) == <<IF emscripten THEN now ELSE up + 1, n + 1>>

\* The budget of a slice added to what the last slice left.
SliceBudget_carry(k, d, cpt, extra) ==
    cycles_left + (IF k = d - 1 THEN WrapAdd(cpt, extra) ELSE cpt)

\* The leftover given to every slice.
SliceBudget_every(k, d, cpt, extra) == WrapAdd(cpt, extra)

\* int cycles_left = cycles_per_tick; if (i == dt - 1) cycles_left += extra_cycles;
SliceBudget(k, d, cpt, extra) == IF k = d - 1 THEN WrapAdd(cpt, extra) ELSE cpt

\* for (i < dt): the clock shadow is updated, then the slice's budget is set
\* (the leftover goes to the last slice) and the while condition is tested.
SliceBegin(now) ==
    /\ pc = "slice"
    /\ i < dt
    /\ LET clock == ClockAtSliceStart(rtc_uptime, rtc_updates, now)
           budget == SliceBudget(i, dt, cycles_per_tick, extra_cycles)
       IN  /\ rtc_uptime' = clock[1]
           /\ rtc_updates' = clock[2]
           /\ cycles_left' = budget
           /\ slice_budget' = budget
           /\ budget_sum' = WrapAdd(budget_sum, budget)
           /\ IF budget > 0
              THEN pc' = "resume" /\ i' = i
              ELSE pc' = "slice" /\ i' = i + 1
    /\ UNCHANGED <<emscripten, arg_vars, reported, entry_obs, exit_code, scheduled, headless, halted, done,
                   bus_requests_exit, ticks, timing_vars, sleep, last_took, draws, calls, raised,
                   polled, ran, faulted, ran_after_fault, started_after_exit>>

\* The unrecoverable fault makes main_loop return.
BreakTarget_return == AfterMainLoop

\* break: control leaves the while loop of the slice, to the i++ of the for loop.
BreakTarget == "slice"

\* One pass of while (cycles_left > 0): fox32_resume, on a fault
\* fox32_recover, break when the fault stays, else cycles_left -= executed.
Resume(o) ==
    /\ pc = "resume"
    /\ ran' = TRUE
    /\ ran_after_fault' = (ran_after_fault \/ faulted)
    /\ halted' = o.halts
    /\ bus_requests_exit' = (bus_requests_exit \/ o.shutdown)
    /\ IF o.fault = "unrecoverable"
       THEN /\ faulted' = TRUE
            /\ pc' = BreakTarget
            /\ i' = i + 1
            /\ UNCHANGED cycles_left
       ELSE /\ cycles_left' = cycles_left - o.executed
            /\ IF cycles_left - o.executed > 0
               THEN pc' = "resume" /\ i' = i
               ELSE pc' = "slice" /\ i' = i + 1
            /\ UNCHANGED faulted
    /\ UNCHANGED <<emscripten, arg_vars, reported, entry_obs, exit_code, scheduled, headless, done, ticks,
                   timing_vars, rtc_uptime, sleep, last_took, draws, calls, raised, polled,
                   rtc_updates, slice_budget, budget_sum, started_after_exit>>

\* The for loop ends: i < dt fails.
SlicesDone ==
    /\ pc = "slice"
    /\ ~(i < dt)
    /\ pc' = "dispatch"
    /\ UNCHANGED <<emscripten, arg_vars, reported, entry_obs, exit_code, scheduled, headless, halted, done,
                   bus_requests_exit, ticks, timing_vars, i, cycles_left, rtc_uptime,
                   sleep, last_took, draws, calls, iter_obs>>

\* The halted flag is left as it was.
HaltedAfterRaise_kept(h) == h

\* vm.halted = false;
HaltedAfterRaise(h) == FALSE

\* if ((ticks % TPF) == 0) { ScreenDraw unless headless; raise vsync; unhalt }
Dispatch ==
    /\ pc = "dispatch"
    /\ IF CMod(ticks, TPF) = 0
       THEN /\ draws' = IF DrawRequested(headless) THEN draws + 1 ELSE draws
            /\ raised' = raised + 1
            /\ halted' = HaltedAfterRaise(halted)
       ELSE UNCHANGED <<draws, raised, halted>>
    /\ pc' = "poll"
    /\ UNCHANGED <<emscripten, arg_vars, reported, entry_obs, exit_code, scheduled, headless, done, bus_requests_exit,
                   ticks, timing_vars, i, cycles_left, rtc_uptime, sleep, last_took, calls,
                   polled, rtc_updates, slice_budget, budget_sum, ran, faulted,
                   ran_after_fault, started_after_exit>>

\* done = ScreenProcessEvents(); ticks++;  and main_loop returns.
Poll(quit) ==
    /\ pc = "poll"
    /\ done' = quit
    /\ polled' = TRUE
    /\ ticks' = ticks + 1
    /\ pc' = AfterMainLoop
    /\ UNCHANGED <<emscripten, arg_vars, reported, entry_obs, exit_code, scheduled, headless, halted,
                   bus_requests_exit, timing_vars, i, cycles_left, rtc_uptime, sleep, last_took,
                   draws, calls, raised, rtc_updates, slice_budget, budget_sum, ran,
                   faulted, ran_after_fault, started_after_exit>>

\* n - u in uint32_t arithmetic, for an int n >= 0.
U32Sub(n, u) ==
    IF u[1] = 0
    THEN (IF u[2] <= n THEN U32(n - u[2]) ELSE U32Neg(u[2] - n))
    ELSE (IF u[2] <= n THEN <<1, n - u[2]>> ELSE <<0, (IntMax - (u[2] - n)) + 1>>)

\* int delay = 1000/TPS - (tick_end - tick_start);
Delay(took) == U32ToInt(U32Sub(CDiv(1000, TPS), took))

\* Pull loop, after main_loop: SDL_Delay(delay) when delay > 0.
Pace(took) ==
    /\ pc = "pace"
    /\ sleep' = IF Delay(took) > 0 THEN Delay(took) ELSE 0
    /\ last_took' = took
    /\ pc' = "loop"
    /\ UNCHANGED <<emscripten, arg_vars, reported, entry_obs, exit_code, scheduled, headless, halted, done,
                   bus_requests_exit, ticks, timing_vars, i, cycles_left, rtc_uptime,
                   draws, calls, iter_obs>>

Next ==
    \/ \E opens \in BOOLEAN : ArgStep(opens)
    \/ ArgsDone
    \/ DefaultDisk
    \/ \E ok \in BOOLEAN : ScreenSetup(ok)
    \/ \E e \in ElapsedSet : PullIterate(e)
    \/ PullReturn
    \/ \E e \in ElapsedSet : PushIterate(e)
    \/ \E now \in SliceClock : SliceBegin(now)
    \/ \E o \in ResumeOutcomes(cycles_left) : Resume(o)
    \/ SlicesDone
    \/ Dispatch
    \/ \E quit \in BOOLEAN : Poll(quit)
    \/ \E took \in TookSet : Pace(took)

Spec == Init /\ [][Next]_vars

\* ------------------------------------------- the timing scheduler alone
\* main_loop's timing scheduler (lines 167-187) called tick after tick, for
\* elapsed times from a wide set; the rest of main_loop writes none of the
\* timing state.  2^32 - 1 ms is the largest uint32_t elapsed time.
BudgetElapsedSet ==
    {U32(n) : n \in {0, 1, 13, 16, 20, 1000, CyclesPerTickTotal,
                     CyclesPerTickTotal + 1, 2000000}} \cup {U32Neg(1)}

BudgetCall(e) ==
    /\ pc # "trapped"
    /\ calls < MaxBudgetTicks
    /\ calls' = calls + 1
    /\ TimingScheduler(e)
    /\ UNCHANGED <<emscripten, arg_vars, reported, entry_obs, exit_code, scheduled, headless, halted, done,
                   bus_requests_exit, ticks, i, cycles_left, rtc_uptime, sleep, last_took, draws,
                   iter_obs>>

NextBudget == \E e \in BudgetElapsedSet : BudgetCall(e)

SpecBudget == Init /\ [][NextBudget]_vars

\* The adaptive scheduler under a host whose iterations take alternately
\* 20% less and 20% more than the tick duration 1000/TPS ms.
OscLow == (1000 * 4) \div (TPS * 5)

OscHigh == (1000 * 6) \div (TPS * 5)

OscCall(e) ==
    /\ emscripten
    /\ e # elapsed
    /\ calls < MaxOscTicks
    /\ calls' = calls + 1
    /\ TimingScheduler(e)
    /\ UNCHANGED <<emscripten, arg_vars, reported, entry_obs, exit_code, scheduled, headless, halted, done,
                   bus_requests_exit, ticks, i, cycles_left, rtc_uptime, sleep, last_took, draws,
                   iter_obs>>

NextOsc == \E e \in {U32(OscLow), U32(OscHigh)} : OscCall(e)

SpecOsc == Init /\ [][NextOsc]_vars

\* ------------------------------------------- long ticks of the native build
\* The native build's event loop for ticks of many slices: the elapsed times
\* run up to the 16 ms of a frame at 60 Hz and past it.
TickElapsedSet == {U32(0), U32(3), U32(7), U32(16), U32(17)}

InitTick == Init /\ ~emscripten

\* The pull loop's condition holds and main_loop is called (lines 146-147).
TickIterate(e) ==
    /\ pc = "loop"
    /\ ~emscripten
    /\ ~done /\ ~bus_requests_exit
    /\ calls < MaxSliceTicks
    /\ EnterMainLoop
    /\ TimingScheduler(e)
    /\ UNCHANGED <<emscripten, arg_vars, reported, exit_code, scheduled, headless, halted, done,
                   bus_requests_exit, ticks, cycles_left, rtc_uptime, draws>>

NextTick ==
    \/ \E opens \in BOOLEAN : ArgStep(opens)
    \/ ArgsDone
    \/ \E ok \in BOOLEAN : ScreenSetup(ok)
    \/ \E e \in TickElapsedSet : TickIterate(e)
    \/ PullReturn
    \/ \E now \in SliceClock : SliceBegin(now)
    \/ \E o \in ResumeOutcomes(cycles_left) : Resume(o)
    \/ SlicesDone
    \/ Dispatch
    \/ \E quit \in BOOLEAN : Poll(quit)
    \/ \E took \in TookSet : Pace(took)

SpecTick == InitTick /\ [][NextTick]_vars

\* ------------------------------------------------------ the startup alone
\* main from its entry to the event loop, for every command line of up to
\* MaxArgs arguments: the options, two file names and a word that is
\* neither ("--bogus").
ArgTokens ==
    {"--help", "--disk", "--rom", "--debug", "--headless", "--bogus", "a.img", "b.img"}

ArgvSet == UNION {[1..n -> ArgTokens] : n \in 0..MaxArgs}

InitArgs == InitWith(ArgvSet)

NextArgs ==
    \/ \E opens \in BOOLEAN : ArgStep(opens)
    \/ ArgsDone
    \/ DefaultDisk
    \/ \E ok \in BOOLEAN : ScreenSetup(ok)

SpecArgs == InitArgs /\ [][NextArgs]_vars

\* ---------------------------------------------------------------- claims
\* Ticks after which the oscillating host's estimate is required to be stable.
ConvergeTicks == 100

\* An iteration of the event loop has run to its end (main_loop returned).
IterationOver == calls > 0 /\ pc \in {"pace", "loop", "returned"}

\* C1 (as claimed): once fox32_recover has returned a fault in an iteration,
\* no further fox32_resume call is made in that iteration (the rest of the
\* tick's budget is abandoned).
C1_NoRunAfterFault == ~ran_after_fault

\* C2: every iteration raises the vertical-sync interrupt exactly once (none
\* before the dispatch, one from the dispatch to the end of the iteration), and
\* right after the raise vm.halted is false, also in an iteration whose budget
\* was cut by an unrecoverable fault.
C2_VsyncOncePerTick ==
    /\ pc \in {"slice", "resume", "dispatch"} => raised = 0
    /\ pc = "poll" => raised = 1 /\ ~halted
    /\ IterationOver => raised = 1

C2_Witness == pc = "poll" /\ faulted /\ raised = 1 /\ ~halted /\ ticks >= 1

\* C3 (as claimed): the budget computation never divides by zero and the
\* per-millisecond cycle count it yields is strictly positive, for every
\* elapsed time.
C3_AlwaysPositive == pc # "trapped" /\ (calls > 0 => cycles_per_tick > 0)

\* C3 (amended): the budget computation never divides by zero, for every
\* elapsed time (0 is clamped to 1); the per-millisecond count of the fixed
\* budget is strictly positive exactly when dt, the elapsed time as an int, is
\* between 1 and FOX32_CPU_HZ / TPS, and for a longer elapsed time it is 0 and
\* the whole tick budget is the leftover.
C3_PositiveUpToTickTotal ==
    /\ pc # "trapped"
    /\ calls > 0 /\ ~emscripten =>
          /\ cycles_per_tick > 0 <=> (1 <= dt /\ dt <= CyclesPerTickTotal)
          /\ dt > CyclesPerTickTotal =>
                cycles_per_tick = 0 /\ extra_cycles = CyclesPerTickTotal
          /\ elapsed = U32(0) => dt = 1 /\ cycles_per_tick = CyclesPerTickTotal

C3_Witness ==
    /\ ~emscripten
    /\ calls = 2
    /\ elapsed = U32(0)
    /\ dt = 1
    /\ cycles_per_tick = CyclesPerTickTotal

\* C4 (as claimed): an exit flag set during an iteration does not abort it
\* (all slices, the interrupt dispatch and the event poll of every iteration
\* run), and no further iteration starts once an exit flag is true.
C4_StopAtBoundary ==
    /\ IterationOver => i >= dt /\ raised = 1 /\ polled
    /\ ~started_after_exit

\* C5 (as claimed): pull loop and push loop behave alike; in particular
\* neither calls fox32_resume in an iteration that starts after an exit flag
\* is true.
C5_NoCyclesAfterExit == started_after_exit => ~ran

\* C6: in headless mode ScreenDraw is never called, at startup or in any
\* iteration, while every iteration still raises the vertical-sync interrupt.
C6_HeadlessNeverDraws ==
    headless => draws = 0 /\ (IterationOver => raised = 1)

C6_Witness == headless /\ IterationOver /\ ticks >= 2 /\ raised = 1 /\ draws = 0

\* C7 (as claimed): the cycles of slice i run before the clock shadow is
\* advanced for slice i: while they run the shadow has been advanced i times
\* in this iteration.
C7_CyclesBeforeClock == pc = "resume" => rtc_updates = i

\* C7 (amended): the clock shadow is advanced for slice i before the cycles of
\* slice i run, and not again until they are over: while they run the shadow
\* has been advanced exactly i + 1 times in this iteration.
C7_ClockBeforeCycles == pc = "resume" => rtc_updates = i + 1

C7_Witness == pc = "resume" /\ i = 1 /\ rtc_updates = 2 /\ ran

\* C8: the interrupt dispatch comes after all slices of the tick (no
\* fox32_resume call follows it in the iteration), and an iteration whose
\* budget was cut by an unrecoverable fault has raised the interrupt and
\* polled the events when the exit flags are tested again.
C8_DispatchAfterBudget ==
    /\ pc \in {"dispatch", "poll"} => i >= dt
    /\ pc \in {"slice", "resume"} => raised = 0 /\ ~polled
    /\ IterationOver /\ faulted => raised = 1 /\ polled

C8_Witness == IterationOver /\ faulted /\ raised = 1 /\ polled /\ pc = "loop"

\* C9 (as claimed): under elapsed times alternating 20% below and above the
\* tick duration, the persisted estimate has reached, after a bounded number
\* of ticks, a value that later ticks no longer change.
C9_ConvergesAndHolds ==
    [][calls >= ConvergeTicks => last_cycle_count' = last_cycle_count]_vars

\* C10 (as claimed): in adaptive mode the persisted estimate is strictly
\* positive in every reachable state.
C10_EstimatePositive == emscripten => last_cycle_count > 0

\* C11: with FOX32_CPU_HZ = 64000000 and TPS = 60, a native tick that measured
\* 16 ms gets a base of 66666 cycles per slice and a leftover of 666 cycles,
\* the leftover added to the last slice (as stated).
C11_Leftover666 ==
    (~emscripten /\ elapsed = U32(16) /\ pc = "resume")
        => /\ cycles_per_tick = 66666
           /\ extra_cycles = 666
           /\ slice_budget = IF i = 15 THEN 66666 + 666 ELSE 66666

\* C11 (amended): with FOX32_CPU_HZ = 64000000 and TPS = 60, a native tick
\* that measured 16 ms gets a base of 66666 cycles per slice and a leftover
\* of 1066666 - 16 * 66666 = 10 cycles, the leftover added to the last slice.
C11_Leftover10 ==
    (~emscripten /\ elapsed = U32(16) /\ pc = "resume")
        => /\ FOX32_CPU_HZ = 64000000 /\ TPS = 60
           /\ cycles_per_tick = 66666
           /\ extra_cycles = 10
           /\ slice_budget = IF i = 15 THEN 66666 + 10 ELSE 66666

C11_Witness ==
    /\ ~emscripten /\ elapsed = U32(16) /\ pc = "resume"
    /\ i = 15 /\ slice_budget = 66676 /\ budget_sum = 1066666

\* The cycles the slices of a whole tick are given: the tick's cycles in the
\* native build, and CYCLE_AUTOADJUST_ADD more in the adaptive build while the
\* measured rate is above the band (lines 185-186).
FullTickBudget ==
    IF emscripten
    THEN WrapAdd(CyclesPerTickTotal, CYCLE_AUTOADJUST_ADD)
    ELSE CyclesPerTickTotal

\* C12: the budget of a tick does not depend on how many cycles earlier ticks
\* executed or abandoned: when the slice loop of a tick is over its slices
\* were given the full budget of its elapsed time, after a tick that
\* abandoned a slice on a fault as after any other, and the budget variables
\* are those the timing scheduler computed from the elapsed time alone.
C12_NoCarryOver ==
    (pc = "dispatch" /\ (emscripten => LastTps(dt) >= TPS + CYCLE_AUTOADJUST_TOLERANCE))
        => /\ budget_sum = FullTickBudget
           /\ cycles_per_tick = BaseCycles(dt)
           /\ WrapAdd(cycles_per_tick * dt, extra_cycles) = FullTickBudget

C12_Witness ==
    /\ pc = "dispatch" /\ ~emscripten /\ prev_faulted /\ ~faulted /\ ran
    /\ calls >= 2 /\ dt = 2 /\ budget_sum = CyclesPerTickTotal

RECURSIVE OptionPositions(_, _)
OptionPositions(av, p) ==
    IF p > Len(av)
    THEN <<>>
    ELSE <<p>> \o OptionPositions(av, IF av[p] \in {"--disk", "--rom"} THEN p + 2 ELSE p + 1)

\* The messages of the option loop after which main returns 1.
FatalMessages ==
    {"unrecognized option", "no disk image specified", "no rom image specified"}

\* C14: every startup configuration error (an unrecognized flag, a missing
\* argument of --disk or --rom, a --rom file that cannot be opened) is
\* reported on stderr and ends the process with a non-zero exit status before
\* the first iteration; --help exits with status 0 without an iteration
\* (as stated).
C14_EveryErrorExits ==
    /\ (reported \cap (FatalMessages \cup {"couldn't open ROM file"}) # {})
          => /\ pc \in {"args", "returned"}
             /\ calls = 0
             /\ (pc = "returned" /\ "Usage" \notin reported) => exit_code > 0
    /\ "Usage" \in reported => pc = "returned" /\ exit_code = 0 /\ calls = 0

\* C14 (amended): an unrecognized flag or a missing argument of --disk or
\* --rom is reported on stderr and main returns 1 at once, before the first
\* iteration; --help writes the usage and main returns 0 without an
\* iteration; a return of 1 before the event loop is always reported; a
\* --rom file that cannot be opened is reported as well but ends nothing: the
\* built-in ROM stays and main goes on with the next option.
C14_FatalErrorsExit ==
    /\ (reported \cap FatalMessages # {})
          => pc = "returned" /\ exit_code = 1 /\ calls = 0
    /\ "Usage" \in reported => pc = "returned" /\ exit_code = 0 /\ calls = 0
    /\ (pc = "returned" /\ calls = 0 /\ exit_code # 0)
          => /\ exit_code = 1
             /\ reported \cap (FatalMessages \cup {"unable to initialize SDL"}) # {}
    /\ (reported = {"couldn't open ROM file"} /\ rom # "fox32rom")
          => \E k \in 1..Len(argv) - 1 : argv[k] = "--rom" /\ argv[k + 1] = rom
    /\ (~emscripten /\ pc \in {"setup", "loop"})
          => /\ reported \subseteq {"couldn't open ROM file"}
             /\ \A k \in 1..Len(OptionPositions(argv, 1)) :
                   LET p == OptionPositions(argv, 1)[k]
                   IN  /\ argv[p] \in {"--disk", "--rom", "--debug", "--headless"}
                       /\ argv[p] \in {"--disk", "--rom"} => p < Len(argv)

C14_Witness ==
    /\ pc = "loop" /\ calls = 0 /\ exit_code = -1
    /\ reported = {"couldn't open ROM file"} /\ rom = "fox32rom"
    /\ argv = <<"--rom", "a.img", "--headless">>

\* The --disk options of the command line, in order: the positions the option
\* loop takes as a --disk option with a file after it.
DiskOptions ==
    SelectSeq(OptionPositions(argv, 1),
              LAMBDA p : argv[p] = "--disk" /\ p < Len(argv))

\* C15: the k-th --disk option of the command line (counting from 0) is
\* registered with index k and with the file that follows it, whatever
\* options are interleaved; when the option loop is over every --disk option
\* has been registered.
C15_DiskIndexInOrder ==
    ~emscripten =>
        /\ disk_id = Len(disks)
        /\ Len(disks) <= Len(DiskOptions)
        /\ \A k \in 1..Len(disks) :
              /\ disks[k].id = k - 1
              /\ disks[k].at = DiskOptions[k]
              /\ disks[k].file = argv[DiskOptions[k] + 1]
        /\ pc \in {"setup", "loop"} => Len(disks) = Len(DiskOptions)

C15_Witness ==
    /\ argv = <<"--disk", "b.img", "--debug", "--disk", "a.img">>
    /\ pc = "setup"
    /\ Len(disks) = 2
    /\ disks[1] = [file |-> "b.img", id |-> 0, at |-> 1]
    /\ disks[2] = [file |-> "a.img", id |-> 1, at |-> 4]

\* C16: in the native build, for every dt >= 1, each slice of a tick is given
\* FOX32_CPU_HZ / TPS / dt cycles, the last slice alone the whole leftover on
\* top, and the budgets of the slices of the tick sum to FOX32_CPU_HZ / TPS.
C16_SlicesSumToTick ==
    (~emscripten /\ calls > 0 /\ dt >= 1) =>
        /\ pc = "resume" =>
              /\ slice_budget = BaseCycles(dt) + (IF i = dt - 1 THEN LeftoverCycles(dt) ELSE 0)
              /\ budget_sum = (i + 1) * BaseCycles(dt) + (IF i = dt - 1 THEN LeftoverCycles(dt) ELSE 0)
        /\ pc = "slice" => budget_sum = i * BaseCycles(dt) + (IF i = dt THEN LeftoverCycles(dt) ELSE 0)
        /\ pc \in {"dispatch", "poll", "pace"} => budget_sum = CyclesPerTickTotal
        /\ LeftoverCycles(dt) >= 0 /\ LeftoverCycles(dt) < dt

C16_Witness ==
    /\ ~emscripten /\ pc = "dispatch" /\ dt = 7 /\ faulted
    /\ cycles_per_tick = 152380 /\ extra_cycles = 6 /\ budget_sum = 1066666

\* The adaptive scheduler takes its branch for a measured rate below the
\* target and outside the band (line 180) for the elapsed time d.
SlowBranch(d) == ~InBand(LastTps(d)) /\ LastTps(d) < TPS

Paced == ~emscripten /\ calls > 0 /\ pc = "loop"

\* C18: the sleep of the pull loop is never longer than one tick duration
\* (1000 / TPS ms) minus the time the iteration took, and there is no sleep
\* when the iteration took a tick duration or more, the time being the
\* uint32_t difference tick_end - tick_start.
C18_SleepWithinTick ==
    Paced =>
        IF last_took[1] = 1 \/ last_took[2] >= CDiv(1000, TPS)
        THEN sleep = 0
        ELSE sleep <= CDiv(1000, TPS) - last_took[2]

\* C19: the while loop of a slice terminates whatever the engine does: every
\* pass that stays in the loop has lowered cycles_left, so no pass (a run of 0
\* cycles with no fault, or with a fault recover resolves) can repeat for ever.
C19_EveryPassProgresses ==
    [][(pc = "resume" /\ pc' = "resume") => cycles_left' < cycles_left]_vars

============================================================================
